---- MODULE Spec2Model ----
(***************************************************************************)
(* PacManMadrid: the position engine (activeBuses, src/src/GtfsMap.jsx),   *)
(* the simulation clock of App (src/src/App.jsx), the lifecycle and frame  *)
(* loop of the GtfsMap component, and the schedule builder                 *)
(* (preprocess-gtfs, second half of src/src/App.jsx).                      *)
(*                                                                         *)
(* Each component has its own specification over the same variables; the   *)
(* variables of the other components stay at their initial values.         *)
(*                                                                         *)
(* JavaScript numbers that can be missing are modelled as sequences:       *)
(* <<v>> is the number v, <<>> is NaN (in the builder) or null (NaN after  *)
(* JSON.stringify, a ref that holds null).                                 *)
(***************************************************************************)
EXTENDS Integers, Sequences, FiniteSets, TLC

VARIABLES
    \* position engine: one route, the queried time, the returned vehicles
    route, simT, buses, queried,
    \* App clock
    simTime, playing, lastT, raf, rafPending, rafNext, wallNow,
    effectDirty, cleanupArmed, mounted, op, runs, steppedInRun, prevStepTs,
    \* GtfsMap component
    mphase, cancelled, animId, animPending, animNext, perfNow,
    eatenAt, pellets, stats, calls, lateCalls,
    \* the last frame of tick: its simulated time, the vehicles whose
    \* interpolation threw, the vehicles pushed to features, the stops eaten
    frameT, failedNow, features, nowEaten,
    \* schedule builder: frequencies
    freqRaw, routeFreqs, bpc,
    \* schedule builder: shape simplification
    pts, si, coords, spc,
    \* schedule builder: trips, stops, output routes and the two documents
    tripsRaw, stopsRaw, routeTrips, stopsMap, outputRoutes, allStops,
    rDoc, sDoc, mpc

engineVars == <<route, simT, buses, queried>>
clockVars == <<simTime, playing, lastT, raf, rafPending, rafNext, wallNow,
               effectDirty, cleanupArmed, mounted, op, runs, steppedInRun, prevStepTs>>
frameVars == <<frameT, failedNow, features, nowEaten>>
mapVars == <<mphase, cancelled, animId, animPending, animNext, perfNow,
             eatenAt, pellets, stats, calls, lateCalls, frameVars>>
freqVars == <<freqRaw, routeFreqs, bpc>>
shapeVars == <<pts, si, coords, spc>>
buildVars == <<tripsRaw, stopsRaw, routeTrips, stopsMap, outputRoutes, allStops,
               rDoc, sDoc, mpc>>
vars == <<engineVars, clockVars, mapVars, freqVars, shapeVars, buildVars>>

----------------------------------------------------------------------------
(* JavaScript values *)

Num(v) == <<v>>
NaN == <<>>
Null == <<>>
IsNum(x) == x # <<>>
\* JS truthiness of a number-or-missing: NaN, null and 0 are falsy
Truthy(x) == IsNum(x) /\ x[1] # 0

RECURSIVE GCD(_, _)
GCD(a, b) == IF b = 0 THEN a ELSE GCD(b, a % b)

\* elapsed / dur for elapsed >= 0, dur > 0, as the reduced fraction <<n, d>>
Frac(n, d) == LET g == GCD(n, d) IN <<n \div g, d \div g>>

----------------------------------------------------------------------------
(* Position engine: activeBuses(route, simTime), GtfsMap.jsx 58-74 *)

MaxBands == 2

\* band.headway <= 0: null compares as 0, so a null headway is skipped too
HeadwaySkipped(band) == ~IsNum(band.headway) \/ band.headway[1] <= 0

\* const dur = band.tripDur || route.tripDuration || 1800
BandDur(r, band) ==
    IF Truthy(band.tripDur) THEN band.tripDur[1]
    ELSE IF Truthy(r.tripDuration) THEN r.tripDuration[1]
    ELSE 1800

\* if (elapsed < 0 || elapsed > dur) continue
Inactive_Strict(elapsed, dur) == elapsed < 0 \/ elapsed >= dur
Inactive_NoEnd(elapsed, dur) == elapsed < 0
Inactive(elapsed, dur) == elapsed < 0 \/ elapsed > dur

\* for (let dep = band.startSec; dep < band.endSec; dep += band.headway)
RECURSIVE DepLoop(_, _, _, _, _)
DepLoop(band, dur, dep, t, out) ==
    IF ~(dep < band.endSec) THEN out
    ELSE LET elapsed == t - dep IN
         DepLoop(band, dur, dep + band.headway[1], t,
                 IF Inactive(elapsed, dur) THEN out
                 ELSE Append(out, [progress |-> Frac(elapsed, dur)]))

\* for (const band of freqs)
RECURSIVE BandLoop(_, _, _, _)
BandLoop(r, i, t, out) ==
    IF i > Len(r.frequencies) THEN out
    ELSE LET band == r.frequencies[i] IN
         BandLoop(r, i + 1, t,
                  IF HeadwaySkipped(band) THEN out
                  ELSE DepLoop(band, BandDur(r, band), band.startSec, t, out))

activeBuses(r, t) ==
    IF Len(r.frequencies) = 0 THEN <<>> ELSE BandLoop(r, 1, t, <<>>)

\* the band of the worked example of the spec (section 8)
ExampleBand == [startSec |-> 28800, endSec |-> 32400,
                headway |-> Num(600), tripDur |-> Num(1800)]
ExampleRoute == [frequencies |-> <<ExampleBand>>, tripDuration |-> Num(1800)]
ExampleTimes == {28799, 29100, 30900}

\* small bands: every combination of a skipped / live headway, an own / missing
\* / zero trip duration, an empty / non-empty departure window
SmallBands == [startSec : {1}, endSec : {1, 4},
               headway : {Null, Num(0), Num(1), Num(2)},
               tripDur : {Null, Num(0), Num(2)}]
RECURSIVE SeqsUpTo(_, _)
SeqsUpTo(S, n) ==
    IF n = 0 THEN {<<>>}
    ELSE LET shorter == SeqsUpTo(S, n - 1) IN
         shorter \cup {Append(s, x) : s \in {q \in shorter : Len(q) = n - 1}, x \in S}
RouteInputs ==
    [frequencies : SeqsUpTo(SmallBands, MaxBands),
     tripDuration : {Null, Num(0), Num(3)}] \cup {ExampleRoute}
TimeInputs == 0 .. 6 \cup ExampleTimes

EngineInit ==
    /\ route \in RouteInputs
    /\ simT = 0
    /\ buses = <<>>
    /\ queried = FALSE
EngineIdle ==
    /\ route = ExampleRoute
    /\ simT = 0
    /\ buses = <<>>
    /\ queried = FALSE

\* one query of the engine: the frame loop calls activeBuses(route, t) with the
\* current simulated time (GtfsMap.jsx 333)
Query(t) ==
    /\ simT' = t
    /\ buses' = activeBuses(route, t)
    /\ queried' = TRUE
    /\ UNCHANGED <<route, clockVars, mapVars, freqVars, shapeVars, buildVars>>

----------------------------------------------------------------------------
(* App: the simulation clock, App.jsx 17-54 and 179-193 *)

SIM_SPEED == 60
T_MIN == 5 * 3600
T_MAX == 26 * 3600

MaxWall == 3000
MaxRaf == 5
\* wall-clock milliseconds that pass between two events
WallSteps == {500, 1000}
\* slider positions: min = T_MIN, max = T_MAX, step = 60
SeekTargets == {T_MIN, 8 * 3600 + 60, T_MAX - 60, T_MAX}

\* useState(8 * 3600), useState(true), useRef(null) x2; the mount effect has not
\* run yet
ClockInit ==
    /\ simTime = 8 * 3600
    /\ playing = TRUE
    /\ lastT = Null
    /\ raf = Null
    /\ rafPending = {}
    /\ rafNext = 1
    /\ wallNow = 0
    /\ effectDirty = TRUE
    /\ cleanupArmed = FALSE
    /\ mounted = TRUE
    /\ op = "init"
    /\ runs = 0
    /\ steppedInRun = FALSE
    /\ prevStepTs = Null

\* setSimTime(prev => { let n = prev + dt * SIM_SPEED; if (n > T_MAX) n = T_MIN;
\* return n }) with dt = (ts - lastT.current) / 1000
\* prev + dt * SIM_SPEED; ts and last are whole milliseconds
Sum(prev, ts, last) == prev + ((ts - last) * SIM_SPEED) \div 1000
Advance_NoWrap(prev, ts, last) == Sum(prev, ts, last)
Advance(prev, ts, last) ==
    LET n == Sum(prev, ts, last)
    IN IF n > T_MAX THEN T_MIN ELSE n

\* op records the handler that ran last ("wrap": a step that took the wrap
\* branch); runs counts the starts of the step loop, steppedInRun tells whether
\* the loop has stepped since its last start, prevStepTs is the time of the last
\* step: none of them is read by the program
IsStep(o) == o \in {"step", "wrap"}

\* the cleanup the effect returned: if (raf.current) cancelAnimationFrame(raf.current)
CleanupCancels_Nothing(pending) == pending
CleanupCancels(pending) ==
    IF cleanupArmed /\ Truthy(raf) THEN pending \ {raf[1]} ELSE pending

\* if (!playing) { lastT.current = null; return }
LastTAfterEffect_Kept(p) == lastT
LastTAfterEffect(p) == IF ~p THEN Null ELSE lastT

\* the effect of [playing] runs for the committed value p of playing: the cleanup
\* of the previous run, then the body
RunEffect(p) ==
    /\ lastT' = LastTAfterEffect(p)
    /\ IF ~p
       THEN /\ rafPending' = CleanupCancels(rafPending)
            /\ cleanupArmed' = FALSE
            /\ UNCHANGED <<raf, rafNext, runs, steppedInRun>>
       ELSE /\ rafNext <= MaxRaf
            /\ raf' = Num(rafNext)
            /\ rafPending' = CleanupCancels(rafPending) \cup {rafNext}
            /\ rafNext' = rafNext + 1
            /\ cleanupArmed' = TRUE
            /\ runs' = runs + 1
            /\ steppedInRun' = FALSE

\* React runs the pending passive effect (at mount; after a commit when effects
\* are deferred)
FlushEffects ==
    /\ mounted /\ effectDirty
    /\ RunEffect(playing)
    /\ effectDirty' = FALSE
    /\ op' = "effect"
    /\ UNCHANGED <<simTime, playing, wallNow, mounted, prevStepTs>>
    /\ UNCHANGED <<engineVars, mapVars, freqVars, shapeVars, buildVars>>

\* onClick={() => setPlaying(p => !p)}; the click is a discrete event, React
\* commits and runs the effect of [playing] before returning to the browser
ToggleSync ==
    /\ mounted /\ ~effectDirty
    /\ playing' = ~playing
    /\ RunEffect(~playing)
    /\ op' = "toggle"
    /\ UNCHANGED <<simTime, wallNow, effectDirty, mounted, prevStepTs>>
    /\ UNCHANGED <<engineVars, mapVars, freqVars, shapeVars, buildVars>>

\* the same click when the effect is deferred to a later task: animation frames
\* may fire between the commit and FlushEffects
ToggleDeferred ==
    /\ mounted /\ ~effectDirty
    /\ playing' = ~playing
    /\ effectDirty' = TRUE
    /\ op' = "toggle"
    /\ UNCHANGED <<simTime, lastT, raf, rafPending, rafNext, wallNow,
                   cleanupArmed, mounted, runs, steppedInRun, prevStepTs>>
    /\ UNCHANGED <<engineVars, mapVars, freqVars, shapeVars, buildVars>>

\* the browser fires the animation frame id: step(ts) with ts the frame time
Frame(id) ==
    /\ id \in rafPending
    /\ rafNext <= MaxRaf
    /\ simTime' = IF IsNum(lastT) THEN Advance(simTime, wallNow, lastT[1]) ELSE simTime
    /\ lastT' = Num(wallNow)
    /\ raf' = Num(rafNext)
    /\ rafPending' = (rafPending \ {id}) \cup {rafNext}
    /\ rafNext' = rafNext + 1
    /\ op' = IF IsNum(lastT) /\ Sum(simTime, wallNow, lastT[1]) > T_MAX
             THEN "wrap" ELSE "step"
    /\ steppedInRun' = TRUE
    /\ prevStepTs' = Num(wallNow)
    /\ UNCHANGED <<playing, wallNow, effectDirty, cleanupArmed, mounted, runs>>
    /\ UNCHANGED <<engineVars, mapVars, freqVars, shapeVars, buildVars>>

\* time-slider onChange: setSimTime(Number(e.target.value))
Seek(v) ==
    /\ mounted
    /\ simTime' = v
    /\ op' = "seek"
    /\ UNCHANGED <<playing, lastT, raf, rafPending, rafNext, wallNow, effectDirty,
                   cleanupArmed, mounted, runs, steppedInRun, prevStepTs>>
    /\ UNCHANGED <<engineVars, mapVars, freqVars, shapeVars, buildVars>>

\* App unmounts: React runs the cleanup of the last effect
Unmount ==
    /\ mounted /\ ~effectDirty
    /\ mounted' = FALSE
    /\ rafPending' = CleanupCancels(rafPending)
    /\ cleanupArmed' = FALSE
    /\ op' = "unmount"
    /\ UNCHANGED <<simTime, playing, lastT, raf, rafNext, wallNow, effectDirty,
                   runs, steppedInRun, prevStepTs>>
    /\ UNCHANGED <<engineVars, mapVars, freqVars, shapeVars, buildVars>>

\* wall-clock time passes
WallTick(d) ==
    /\ wallNow + d <= MaxWall
    /\ wallNow' = wallNow + d
    /\ op' = "wait"
    /\ UNCHANGED <<simTime, playing, lastT, raf, rafPending, rafNext, effectDirty,
                   cleanupArmed, mounted, runs, steppedInRun, prevStepTs>>
    /\ UNCHANGED <<engineVars, mapVars, freqVars, shapeVars, buildVars>>

----------------------------------------------------------------------------
(* GtfsMap: lifecycle of the component and its frame loop, GtfsMap.jsx 89-405 *)

PELLET_RESPAWN == 4000

\* the two documents the component fetches: emt-routes.json (per route: bands,
\* trip duration, the stops of shapes[0] with their distance; geo tells whether
\* routeGeo holds a line for the route) and emt-stops.json
MapRoutes ==
    << [id |-> "r1", geo |-> TRUE,
        frequencies |-> <<ExampleBand>>, tripDuration |-> Num(1800),
        stops |-> << [id |-> "s1", dist |-> 0, arr |-> 25200],
                     [id |-> "s2", dist |-> 500, arr |-> 25300],
                     [id |-> "s3", dist |-> 1000, arr |-> 27000] >>],
       [id |-> "r2", geo |-> TRUE,
        frequencies |-> << [startSec |-> 28800, endSec |-> 30000,
                            headway |-> Num(1200), tripDur |-> Null] >>,
        tripDuration |-> Num(2400),
        stops |-> << [id |-> "s3", dist |-> 0, arr |-> 25200],
                     [id |-> "s2", dist |-> 31, arr |-> 25260],
                     [id |-> "s1", dist |-> 2000, arr |-> 27600] >>],
       [id |-> "r3", geo |-> FALSE,
        frequencies |-> <<ExampleBand>>, tripDuration |-> Num(1800),
        stops |-> << [id |-> "s2", dist |-> 0, arr |-> 25200] >>],
       [id |-> "r4", geo |-> TRUE,
        frequencies |-> << [startSec |-> 28800, endSec |-> 28860,
                            headway |-> Num(600), tripDur |-> Num(600)] >>,
        tripDuration |-> Num(600),
        stops |-> << [id |-> "s4", dist |-> 0, arr |-> 25200] >>] >>
StopIds == {"s1", "s2", "s3", "s4"}

\* values of stateRef.current.simTime and of performance.now() (milliseconds, in
\* increasing order) at the frames
MapSimTimes == {20000, 28800, 29700, 30600}
PerfTimes == {32, 192, 4031, 4032, 4224}

\* useRef / let of the effect; the App state the callbacks set
MapInit ==
    /\ mphase = "created"
    /\ cancelled = FALSE
    /\ animId = Null
    /\ animPending = {}
    /\ animNext = 1
    /\ perfNow = 0
    /\ eatenAt = [s \in StopIds |-> Null]
    /\ pellets = [s \in StopIds |-> 0]
    /\ stats = [routes |-> 0, buses |-> 0]
    /\ calls = {}
    /\ lateCalls = {}
    /\ frameT = 0
    /\ failedNow = {}
    /\ features = {}
    /\ nowEaten = {}

\* a callback of the presentation layer is invoked; lateCalls keeps those invoked
\* after the cleanup ran
Invoke(names) ==
    /\ calls' = calls \cup names
    /\ lateCalls' = IF cancelled THEN lateCalls \cup names ELSE lateCalls

\* map.on('load', async () => { if (cancelled) return; try { onProgress(...);
\* await Promise.all([fetchJSON, fetchJSON])
MapLoad ==
    /\ mphase = "created"
    /\ IF cancelled
       THEN mphase' = "aborted" /\ UNCHANGED <<calls, lateCalls>>
       ELSE mphase' = "fetching" /\ Invoke({"onProgress"})
    /\ UNCHANGED <<cancelled, animId, animPending, animNext, perfNow, eatenAt,
                   pellets, stats, frameVars>>
    /\ UNCHANGED <<engineVars, clockVars, freqVars, shapeVars, buildVars>>

\* the await resolves: if (cancelled) return; onRoutesLoaded(routes); sources and
\* layers; animId = requestAnimationFrame(tick); onReady()
FetchOk ==
    /\ mphase = "fetching"
    /\ IF cancelled
       THEN /\ mphase' = "aborted"
            /\ UNCHANGED <<animId, animPending, animNext, calls, lateCalls>>
       ELSE /\ mphase' = "running"
            /\ Invoke({"onRoutesLoaded", "onProgress", "onReady"})
            /\ animId' = Num(animNext)
            /\ animPending' = animPending \cup {animNext}
            /\ animNext' = animNext + 1
    /\ UNCHANGED <<cancelled, perfNow, eatenAt, pellets, stats, frameVars>>
    /\ UNCHANGED <<engineVars, clockVars, freqVars, shapeVars, buildVars>>

\* the await resolves and a later statement of the try block throws (addImage,
\* addSource, addLayer): catch (err) { console.error(err); onProgress('Error: ...') }
SetupFails ==
    /\ mphase = "fetching"
    /\ ~cancelled
    /\ mphase' = "failed"
    /\ Invoke({"onRoutesLoaded", "onProgress"})
    /\ UNCHANGED <<cancelled, animId, animPending, animNext, perfNow, eatenAt,
                   pellets, stats, frameVars>>
    /\ UNCHANGED <<engineVars, clockVars, freqVars, shapeVars, buildVars>>

\* the await rejects (fetchJSON throws `Failed ${name}` or the request fails):
\* catch (err) { console.error(err); onProgress('Error: ' + err.message) }
FetchFail ==
    /\ mphase = "fetching"
    /\ mphase' = "failed"
    /\ Invoke({"onProgress"})
    /\ UNCHANGED <<cancelled, animId, animPending, animNext, perfNow, eatenAt,
                   pellets, stats, frameVars>>
    /\ UNCHANGED <<engineVars, clockVars, freqVars, shapeVars, buildVars>>

\* fractions <<n, d>> with d > 0
FracLess(f, g) == f[1] * g[2] < g[1] * f[2]
Abs(x) == IF x < 0 THEN -x ELSE x

\* const p = Math.max(0.001, Math.min(0.999, ab.progress))
Clamp_None(f) == f
Clamp(f) ==
    IF FracLess(f, <<1, 1000>>) THEN <<1, 1000>>
    ELSE IF FracLess(<<999, 1000>>, f) THEN <<999, 1000>>
    ELSE f

\* const totalD = sh.stops[sh.stops.length - 1]?.dist || 1
TotalD(stops) == IF stops[Len(stops)].dist # 0 THEN stops[Len(stops)].dist ELSE 1

\* Math.abs(p - s.dist / totalD) < 0.015
NearStop(p, dist, totalD) ==
    Abs(p[1] * totalD - dist * p[2]) * 1000 < 15 * Abs(p[2] * totalD)

\* the vehicles of a frame: <<route index, index in activeBuses(route, t)>>, for
\* the routes that have a line (if (!geo) return)
Vehicles(t) ==
    UNION {{<<ri, j>> : j \in 1 .. Len(activeBuses(MapRoutes[ri], t))}
           : ri \in {i \in 1 .. Len(MapRoutes) : MapRoutes[i].geo}}

\* the stops a vehicle eats: if (sh?.stops?.length) { ... nowEaten.add(s.id) }
EatenBy(t, v) ==
    LET r == MapRoutes[v[1]]
        p == Clamp(activeBuses(r, t)[v[2]].progress)
    IN IF Len(r.stops) = 0 THEN {}
       ELSE {r.stops[k].id : k \in {i \in 1 .. Len(r.stops) :
                                NearStop(p, r.stops[i].dist, TotalD(r.stops))}}

\* the vehicles and what each eats, per simulated time of a frame
FrameVehicles == [t \in MapSimTimes |-> Vehicles(t)]
FrameEats == [t \in MapSimTimes |-> [v \in Vehicles(t) |-> EatenBy(t, v)]]

\* try { const pt = turf.along(...); features.push(...); busCount++; ... }
\* catch { /* skip */ }: the vehicles that reach features.push
Pushed_RouteDropped(all, failed) ==
    {v \in all : \A w \in failed : w[1] # v[1]}
Pushed(all, failed) == all \ failed

\* Math.round(now / 16) % 12 === 0, for a whole number of milliseconds
PelletsDue(now) == ((now + 8) \div 16) % 12 = 0

\* eaten: (eatenAt[s.id] && now - eatenAt[s.id] < PELLET_RESPAWN) ? 1 : 0
EatenFlag_Inclusive(at, now) ==
    IF Truthy(at) /\ now - at[1] <= PELLET_RESPAWN THEN 1 ELSE 0
EatenFlag(at, now) ==
    IF Truthy(at) /\ now - at[1] < PELLET_RESPAWN THEN 1 ELSE 0

\* the browser fires the animation frame id: tick(), with t the simulated time
\* in stateRef, now the value of performance.now() and failed the vehicles for
\* which turf.along throws (try { ... } catch { /* skip */ })
Tick(id, t, now, failed) ==
    /\ id \in animPending
    /\ now > perfNow
    /\ failed \subseteq FrameVehicles[t]
    /\ IF cancelled
       THEN /\ animPending' = animPending \ {id}
            /\ UNCHANGED <<animId, animNext, perfNow, eatenAt, pellets, stats,
                           calls, lateCalls, frameVars>>
       ELSE LET shown == Pushed(FrameVehicles[t], failed)
                ate == UNION {FrameEats[t][v] : v \in shown}
                eaten == [s \in StopIds |->
                            IF s \in ate THEN Num(now) ELSE eatenAt[s]]
            IN /\ frameT' = t
               /\ failedNow' = failed
               /\ features' = shown
               /\ nowEaten' = ate
               /\ stats' = [routes |-> Len(MapRoutes), buses |-> Cardinality(shown)]
               /\ Invoke({"onStats"})
               /\ perfNow' = now
               /\ eatenAt' = eaten
               /\ pellets' = IF PelletsDue(now)
                             THEN [s \in StopIds |-> EatenFlag(eaten[s], now)]
                             ELSE pellets
               /\ animId' = Num(animNext)
               /\ animPending' = (animPending \ {id}) \cup {animNext}
               /\ animNext' = animNext + 1
    /\ UNCHANGED <<mphase, cancelled>>
    /\ UNCHANGED <<engineVars, clockVars, freqVars, shapeVars, buildVars>>

\* the cleanup of the effect: cancelled = true; if (animId)
\* cancelAnimationFrame(animId); map.remove(); mapRef.current = null
Teardown ==
    /\ ~cancelled
    /\ cancelled' = TRUE
    /\ animPending' = IF Truthy(animId) THEN animPending \ {animId[1]} ELSE animPending
    /\ UNCHANGED <<mphase, animId, animNext, perfNow, eatenAt, pellets, stats,
                   calls, lateCalls, frameVars>>
    /\ UNCHANGED <<engineVars, clockVars, freqVars, shapeVars, buildVars>>

----------------------------------------------------------------------------
(* Schedule builder: text fields.  A field of a table row is a sequence of     *)
(* one-character strings.                                                      *)

DigitVal(c) ==
    CASE c = "0" -> 0 [] c = "1" -> 1 [] c = "2" -> 2 [] c = "3" -> 3
      [] c = "4" -> 4 [] c = "5" -> 5 [] c = "6" -> 6 [] c = "7" -> 7
      [] c = "8" -> 8 [] c = "9" -> 9
IsDigit(c) == c \in {"0", "1", "2", "3", "4", "5", "6", "7", "8", "9"}

\* the value and the length of the longest prefix of digits of txt from i on
RECURSIVE DigitRun(_, _, _, _)
DigitRun(txt, i, acc, n) ==
    IF i > Len(txt) \/ ~IsDigit(txt[i]) THEN <<acc, n>>
    ELSE DigitRun(txt, i + 1, acc * 10 + DigitVal(txt[i]), n + 1)

RECURSIVE SkipSpaces(_, _)
SkipSpaces(txt, i) ==
    IF i <= Len(txt) /\ txt[i] = " " THEN SkipSpaces(txt, i + 1) ELSE i

\* parseInt(txt): leading blanks, an optional sign, then the digits it can read;
\* NaN when there is none
parseInt(txt) ==
    LET i == SkipSpaces(txt, 1)
        neg == i <= Len(txt) /\ txt[i] = "-"
        j == IF i <= Len(txt) /\ txt[i] \in {"-", "+"} THEN i + 1 ELSE i
        run == DigitRun(txt, j, 0, 0)
    IN IF run[2] = 0 THEN NaN ELSE Num(IF neg THEN -run[1] ELSE run[1])

\* Number(txt) for the fields of a time: "" is 0, a run of digits its value,
\* anything else NaN
Number(txt) ==
    LET run == DigitRun(txt, 1, 0, 0)
    IN IF run[2] = Len(txt) THEN Num(run[1]) ELSE NaN

\* txt.split(':')
RECURSIVE Split(_, _, _, _)
Split(txt, i, cur, parts) ==
    IF i > Len(txt) THEN Append(parts, cur)
    ELSE IF txt[i] = ":" THEN Split(txt, i + 1, <<>>, Append(parts, cur))
    ELSE Split(txt, i + 1, Append(cur, txt[i]), parts)

\* function timeToSec(t) { const [h, m, s] = t.split(':').map(Number);
\* return h * 3600 + m * 60 + (s || 0) }
timeToSec(txt) ==
    LET parts == Split(txt, 1, <<>>, <<>>)
        h == Number(parts[1])
        m == IF Len(parts) >= 2 THEN Number(parts[2]) ELSE NaN
        s == IF Len(parts) >= 3 /\ Truthy(Number(parts[3])) THEN Number(parts[3])[1] ELSE 0
    IN IF IsNum(h) /\ IsNum(m) THEN Num(h[1] * 3600 + m[1] * 60 + s) ELSE NaN

\* a - b and a < b on numbers that may be NaN
JsSub(a, b) == IF IsNum(a) /\ IsNum(b) THEN Num(a[1] - b[1]) ELSE NaN
JsLess(a, b) == IsNum(a) /\ IsNum(b) /\ a[1] < b[1]

----------------------------------------------------------------------------
(* Schedule builder: frequencies, App.jsx 327-357 *)

MaxRows == 3

RouteIds == {"r1", "r2"}

\* tripRoute and tripStops as sections 2 and 5 of main leave them for a trips.txt
\* with tA, tB of route r1 and tC of route r2, and a stop_times.txt with two
\* stops of tA (arrivals 0:00:10 and 0:00:40), one of tB and none of tC
tripRoute == [t \in {"tA", "tB", "tC"} |-> IF t = "tC" THEN "r2" ELSE "r1"]
tripStops ==
    [t \in {"tA", "tB"} |->
        IF t = "tA"
        THEN << [stop_id |-> "s1", seq |-> Num(1), dist |-> 0, arrSec |-> Num(10)],
                [stop_id |-> "s2", seq |-> Num(2), dist |-> 500, arrSec |-> Num(40)] >>
        ELSE << [stop_id |-> "s1", seq |-> Num(1), dist |-> 0, arrSec |-> Num(10)] >>]

\* the rows of frequencies.txt: trip_id, start_time, end_time, headway_secs
FreqRows ==
    [trip_id : {"tA", "tB", "tC", "tX"},
     start_time : {<<"0", ":", "0", "0", ":", "0", "1">>,
                   <<"0", ":", "0", "0", ":", "0", "2">>},
     end_time : {<<"0", ":", "0", "0", ":", "0", "2">>},
     headway_secs : {<<"2">>, <<"1">>, <<"0">>, <<"x">>}]

FreqInit ==
    /\ freqRaw \in SeqsUpTo(FreqRows, MaxRows)
    /\ routeFreqs = [r \in RouteIds |-> <<>>]
    /\ bpc = "frequencies"
FreqIdle ==
    /\ freqRaw = <<>>
    /\ routeFreqs = [r \in RouteIds |-> <<>>]
    /\ bpc = "frequencies"

\* const tripDur = sts ? (sts[sts.length - 1].arrSec - sts[0].arrSec) : 1800
TripDurOf(trip) ==
    IF trip \in DOMAIN tripStops
    THEN LET sts == tripStops[trip] IN JsSub(sts[Len(sts)].arrSec, sts[1].arrSec)
    ELSE Num(1800)

\* the band a row appends: { startSec, endSec, headway, tripDur }
BandOfRow(f) ==
    [startSec |-> timeToSec(f.start_time),
     endSec |-> timeToSec(f.end_time),
     headway |-> parseInt(f.headway_secs),
     tripDur |-> TripDurOf(f.trip_id)]

\* for (const f of freqRaw) { const routeId = tripRoute[f.trip_id];
\* if (!routeId) continue; ... routeFreqs[routeId].push({...}) }
RECURSIVE AppendRows(_, _, _)
AppendRows(rows, i, acc) ==
    IF i > Len(rows) THEN acc
    ELSE LET f == rows[i] IN
         AppendRows(rows, i + 1,
                    IF f.trip_id \notin DOMAIN tripRoute THEN acc
                    ELSE [acc EXCEPT ![tripRoute[f.trip_id]] = Append(@, BandOfRow(f))])

ReadFrequencies ==
    /\ bpc = "frequencies"
    /\ routeFreqs' = AppendRows(freqRaw, 1, routeFreqs)
    /\ bpc' = "merge"
    /\ UNCHANGED freqRaw
    /\ UNCHANGED <<engineVars, clockVars, mapVars, shapeVars, buildVars>>

\* const key = `${b.startSec}-${b.endSec}`: two bands have the same key iff
\* they have the same start and the same end (a NaN prints as "NaN")
KeyOf(b) == <<b.startSec, b.endSec>>

\* if (!merged[key] || b.headway < merged[key].headway) merged[key] = b, with
\* merged kept as the bands in the order their keys were first inserted
Replaces(b, old) == JsLess(b.headway, old.headway)
RECURSIVE MergeInto(_, _, _)
MergeInto(bands, i, merged) ==
    IF i > Len(bands) THEN merged
    ELSE LET b == bands[i]
             at == {k \in 1 .. Len(merged) : KeyOf(merged[k]) = KeyOf(b)}
         IN MergeInto(bands, i + 1,
                      IF at = {} THEN Append(merged, b)
                      ELSE LET k == CHOOSE x \in at : TRUE
                           IN IF Replaces(b, merged[k])
                              THEN [merged EXCEPT ![k] = b] ELSE merged)

\* .sort((a, b) => a.startSec - b.startSec): stable; a NaN difference counts as 0
ComesBefore(a, b) == JsLess(a.startSec, b.startSec)
RECURSIVE InsertBand(_, _, _)
InsertBand(sorted, b, k) ==
    IF k = 0 \/ ~ComesBefore(b, sorted[k])
    THEN SubSeq(sorted, 1, k) \o <<b>> \o SubSeq(sorted, k + 1, Len(sorted))
    ELSE InsertBand(sorted, b, k - 1)
RECURSIVE SortBands(_, _, _)
SortBands(bands, i, sorted) ==
    IF i > Len(bands) THEN sorted
    ELSE SortBands(bands, i + 1, InsertBand(sorted, bands[i], Len(sorted)))

\* for (const rid of Object.keys(routeFreqs)) { ... routeFreqs[rid] =
\* Object.values(merged).sort(...) }
MergeBands ==
    /\ bpc = "merge"
    /\ routeFreqs' = [r \in RouteIds |->
                        SortBands(MergeInto(routeFreqs[r], 1, <<>>), 1, <<>>)]
    /\ bpc' = "done"
    /\ UNCHANGED freqRaw
    /\ UNCHANGED <<engineVars, clockVars, mapVars, shapeVars, buildVars>>

----------------------------------------------------------------------------
(* Schedule builder: shape simplification, App.jsx 368-382 *)

MaxPts == 203

\* coordinates in units of 1e-7 degrees on input, of 1e-6 degrees on output
\* Math.round(x * 1e6) / 1e6: to the nearest 1e-6, a half goes up
Round6(x) == IF IsNum(x) THEN Num((x[1] + 5) \div 10) ELSE NaN

\* shapesMap[shape_id] after the sort by seq: n points, off shifts the last digit,
\* bad is the index of a point whose latitude did not parse (0: none)
PointList(n, off, bad) ==
    [i \in 1 .. n |->
        [lat |-> IF i = bad THEN NaN ELSE Num(404168000 + 13 * i + off),
         lon |-> Num(-37038000 - 7 * i - off),
         seq |-> Num(i)]]
ShapeLengths == 0 .. 4 \cup 99 .. 102 \cup 199 .. MaxPts
ShapeInputs == {PointList(n, off, bad) : n \in ShapeLengths, off \in {0, 5}, bad \in {0, 2}}

ShapeInit ==
    /\ pts \in ShapeInputs
    /\ si = 0
    /\ coords = <<>>
    /\ spc = "check"
ShapeIdle ==
    /\ pts = <<>>
    /\ si = 0
    /\ coords = <<>>
    /\ spc = "check"

\* const step = pts.length > 200 ? 3 : pts.length > 100 ? 2 : 1
StepOf(n) == IF n > 200 THEN 3 ELSE IF n > 100 THEN 2 ELSE 1

\* if (i === 0 || i === pts.length - 1 || i % step === 0), i counted from 0
KeepPoint_NoLast(i, n, step) == i = 0 \/ i % step = 0
KeepPoint(i, n, step) == i = 0 \/ i = n - 1 \/ i % step = 0

\* if (!pts || pts.length < 2) continue
ShapeCheck ==
    /\ spc = "check"
    /\ spc' = IF Len(pts) < 2 THEN "skipped" ELSE "loop"
    /\ UNCHANGED <<pts, si, coords>>
    /\ UNCHANGED <<engineVars, clockVars, mapVars, freqVars, buildVars>>

\* one iteration of for (let i = 0; i < pts.length; i++): coords.push([lon, lat])
\* rounded, for the points kept
SimplifyStep ==
    /\ spc = "loop"
    /\ si < Len(pts)
    /\ coords' = IF KeepPoint(si, Len(pts), StepOf(Len(pts)))
                 THEN Append(coords, <<Round6(pts[si + 1].lon), Round6(pts[si + 1].lat)>>)
                 ELSE coords
    /\ si' = si + 1
    /\ UNCHANGED <<pts, spc>>
    /\ UNCHANGED <<engineVars, clockVars, mapVars, freqVars, buildVars>>

\* the loop ends: routeShapes.push({ ..., coordinates: coords, ... })
ShapeDone ==
    /\ spc = "loop"
    /\ si = Len(pts)
    /\ spc' = "done"
    /\ UNCHANGED <<pts, si, coords>>
    /\ UNCHANGED <<engineVars, clockVars, mapVars, freqVars, buildVars>>

----------------------------------------------------------------------------
(* Schedule builder: trips, stops, output routes and the two documents,       *)
(* App.jsx 220-227, 246-325 and 359-445                                        *)

MaxTrips == 3
MaxStopRows == 2

\* parseFloat(txt) for a plain decimal text, in units of 1e-7: leading blanks, an
\* optional sign, digits, an optional point and up to 7 more digits; NaN when it
\* can read no digit
RECURSIVE Pow10(_)
Pow10(k) == IF k = 0 THEN 1 ELSE 10 * Pow10(k - 1)
parseFloat(txt) ==
    LET i == SkipSpaces(txt, 1)
        neg == i <= Len(txt) /\ txt[i] = "-"
        j == IF i <= Len(txt) /\ txt[i] \in {"-", "+"} THEN i + 1 ELSE i
        int == DigitRun(txt, j, 0, 0)
        k == j + int[2]
        frac == IF k <= Len(txt) /\ txt[k] = "." THEN DigitRun(txt, k + 1, 0, 0)
                ELSE <<0, 0>>
        v == int[1] * Pow10(7) + frac[1] * Pow10(7 - frac[2])
    IN IF int[2] = 0 /\ frac[2] = 0 THEN NaN ELSE Num(IF neg THEN -v ELSE v)

\* routes.txt: three routes, r3 has no trip
routesRaw == <<[route_id |-> "r1"], [route_id |-> "r2"], [route_id |-> "r3"]>>
BuildRouteIds == {"r1", "r2", "r3"}

\* shapesMap[shape_id].length after section 3: h1 and h2 have a path, h3 has a
\* single point; the points themselves are the subject of the shape component
shapesLen == [h \in {"h1", "h2", "h3"} |-> IF h = "h1" THEN 3 ELSE IF h = "h2" THEN 2 ELSE 1]

\* trips.txt: the i-th row is the trip TripIds[i], its headsign names the trip
TripIds == <<"tA", "tB", "tC", "tD">>
TripRowChoices ==
    { [route_id |-> "r1", direction_id |-> <<"0">>, shape_id |-> "h1"],
      [route_id |-> "r1", direction_id |-> <<>>, shape_id |-> "h1"],
      [route_id |-> "r1", direction_id |-> <<"1">>, shape_id |-> "h2"],
      [route_id |-> "r1", direction_id |-> <<"0">>, shape_id |-> "h3"],
      [route_id |-> "r2", direction_id |-> <<"0">>, shape_id |-> "h1"],
      [route_id |-> "r2", direction_id |-> <<"1">>, shape_id |-> "h3"] }
TripTables ==
    {[i \in 1 .. Len(q) |->
        [trip_id |-> TripIds[i], route_id |-> q[i].route_id,
         direction_id |-> q[i].direction_id, shape_id |-> q[i].shape_id,
         trip_headsign |-> <<"to", TripIds[i]>>]]
     : q \in SeqsUpTo(TripRowChoices, MaxTrips)}

\* stops.txt: s1 with a latitude that parses or not, s2 with a longitude that
\* parses or not
StopRows ==
    { [stop_id |-> "s1", stop_name |-> "one",
       stop_lat |-> <<"4", "0", ".", "4">>, stop_lon |-> <<"-", "3", ".", "7">>],
      [stop_id |-> "s1", stop_name |-> "one",
       stop_lat |-> <<"x">>, stop_lon |-> <<"-", "3", ".", "7">>],
      [stop_id |-> "s2", stop_name |-> "two",
       stop_lat |-> <<"4", "0", ".", "5">>, stop_lon |-> <<"-", "3", ".", "8">>],
      [stop_id |-> "s2", stop_name |-> "two",
       stop_lat |-> <<"4", "0", ".", "5">>, stop_lon |-> <<>>] }
StopTables == SeqsUpTo(StopRows, MaxStopRows)

\* the state of main before it reads anything; rDoc and sDoc tell what
\* emt-routes.json and emt-stops.json hold: "old" (what was there before the
\* run, possibly nothing), "partial" (a write that failed midway) or "new"
BuildInit ==
    /\ tripsRaw \in TripTables
    /\ stopsRaw \in StopTables
    /\ routeTrips = [r \in BuildRouteIds |-> <<>>]
    /\ stopsMap = <<>>
    /\ outputRoutes = <<>>
    /\ allStops = <<>>
    /\ rDoc = "old"
    /\ sDoc = "old"
    /\ mpc = "find"
BuildIdle ==
    /\ tripsRaw = <<>>
    /\ stopsRaw = <<>>
    /\ routeTrips = [r \in BuildRouteIds |-> <<>>]
    /\ stopsMap = <<>>
    /\ outputRoutes = <<>>
    /\ allStops = <<>>
    /\ rDoc = "old"
    /\ sDoc = "old"
    /\ mpc = "find"

\* const key = `${t.direction_id}_${t.shape_id}`: the characters of the
\* direction, an underscore, the shape id (ids of the model hold no underscore)
TripKey(t) == t.direction_id \o <<"_">> \o <<t.shape_id>>

\* direction: parseInt(t.direction_id) || 0
DirectionOf(t) ==
    LET v == parseInt(t.direction_id) IN IF Truthy(v) THEN v[1] ELSE 0

\* for (const t of tripsRaw) { ... if (!routeTrips[t.route_id][key])
\* routeTrips[t.route_id][key] = { shape_id, trip_id, headsign, direction } };
\* the entries of a route are kept in the order their keys were inserted
RECURSIVE TripLoop(_, _, _)
TripLoop(rows, i, rt) ==
    IF i > Len(rows) THEN rt
    ELSE LET t == rows[i]
             has == \E k \in 1 .. Len(rt[t.route_id]) : rt[t.route_id][k].key = TripKey(t)
             info == [key |-> TripKey(t), shape_id |-> t.shape_id, trip_id |-> t.trip_id,
                      headsign |-> t.trip_headsign, direction |-> DirectionOf(t)]
         IN TripLoop(rows, i + 1,
                     IF has THEN rt ELSE [rt EXCEPT ![t.route_id] = Append(@, info)])

\* for (const s of stopsRaw) stopsMap[s.stop_id] = { id, name, lat, lon }
RECURSIVE StopLoop(_, _, _)
StopLoop(rows, i, m) ==
    IF i > Len(rows) THEN m
    ELSE LET r == rows[i]
             rec == [id |-> r.stop_id, name |-> r.stop_name,
                     lat |-> parseFloat(r.stop_lat), lon |-> parseFloat(r.stop_lon)]
         IN StopLoop(rows, i + 1,
                     [x \in DOMAIN m \cup {r.stop_id} |-> IF x = r.stop_id THEN rec ELSE m[x]])

\* for (const ts of tStops) { const stop = stopsMap[ts.stop_id];
\* if (stop && !isNaN(stop.lat) && !isNaN(stop.lon)) stopArr.push({...}) }
RECURSIVE StopArrLoop(_, _, _, _)
StopArrLoop(tStops, i, m, out) ==
    IF i > Len(tStops) THEN out
    ELSE LET ts == tStops[i]
             ok == /\ ts.stop_id \in DOMAIN m
                   /\ IsNum(m[ts.stop_id].lat) /\ IsNum(m[ts.stop_id].lon)
         IN StopArrLoop(tStops, i + 1, m,
                IF ok THEN Append(out, [id |-> m[ts.stop_id].id,
                                        name |-> m[ts.stop_id].name,
                                        coords |-> <<Round6(m[ts.stop_id].lon),
                                                     Round6(m[ts.stop_id].lat)>>,
                                        dist |-> ts.dist, arr |-> ts.arrSec])
                ELSE out)

\* for (const ti of Object.values(trips)) { const pts = shapesMap[ti.shape_id];
\* if (!pts || pts.length < 2) continue; ... routeShapes.push({ shapeId,
\* headsign, direction, coordinates, stops }) }
RECURSIVE ShapeLoop(_, _, _, _)
ShapeLoop(trips, i, m, out) ==
    IF i > Len(trips) THEN out
    ELSE LET ti == trips[i]
             skip == ti.shape_id \notin DOMAIN shapesLen \/ shapesLen[ti.shape_id] < 2
             tStops == IF ti.trip_id \in DOMAIN tripStops THEN tripStops[ti.trip_id] ELSE <<>>
         IN ShapeLoop(trips, i + 1, m,
                IF skip THEN out
                ELSE Append(out, [shapeId |-> ti.shape_id, headsign |-> ti.headsign,
                                  direction |-> ti.direction,
                                  stops |-> StopArrLoop(tStops, 1, m, <<>>)]))

\* const tripDuration = s0.length > 1 ? s0[s0.length - 1].arr - s0[0].arr : 1800
RouteTripDuration(s0) ==
    IF Len(s0) > 1 THEN JsSub(s0[Len(s0)].arr, s0[1].arr) ELSE Num(1800)

\* for (const route of routesRaw) { const trips = routeTrips[route.route_id];
\* if (!trips) continue; ... if (routeShapes.length === 0) continue;
\* outputRoutes.push({ id, ..., shapes, tripDuration, frequencies }) }
RECURSIVE RouteLoop(_, _, _, _)
RouteLoop(i, rt, m, out) ==
    IF i > Len(routesRaw) THEN out
    ELSE LET rid == routesRaw[i].route_id
             routeShapes == ShapeLoop(rt[rid], 1, m, <<>>)
         IN RouteLoop(i + 1, rt, m,
                IF Len(rt[rid]) = 0 \/ Len(routeShapes) = 0 THEN out
                ELSE Append(out, [id |-> rid, shapes |-> routeShapes,
                                  tripDuration |-> RouteTripDuration(routeShapes[1].stops),
                                  frequencies |-> IF rid \in DOMAIN routeFreqs
                                                  THEN routeFreqs[rid] ELSE <<>>]))

\* the stops of all shapes of all routes, in emission order
RECURSIVE ShapeStops(_, _)
ShapeStops(shapes, i) ==
    IF i > Len(shapes) THEN <<>> ELSE shapes[i].stops \o ShapeStops(shapes, i + 1)
RECURSIVE RouteStops(_, _)
RouteStops(routes, i) ==
    IF i > Len(routes) THEN <<>>
    ELSE ShapeStops(routes[i].shapes, 1) \o RouteStops(routes, i + 1)

\* if (!seen.has(s.id)) { seen.add(s.id); allStops.push(s) }
UniqueLoop_KeepAll(stops, i, seen, out) == stops
RECURSIVE UniqueLoop(_, _, _, _)
UniqueLoop(stops, i, seen, out) ==
    IF i > Len(stops) THEN out
    ELSE IF stops[i].id \in seen THEN UniqueLoop(stops, i + 1, seen, out)
    ELSE UniqueLoop(stops, i + 1, seen \cup {stops[i].id}, Append(out, stops[i]))

\* findGtfsDir() finds the folder
FindGtfsDir ==
    /\ mpc = "find"
    /\ mpc' = "read"
    /\ UNCHANGED <<tripsRaw, stopsRaw, routeTrips, stopsMap, outputRoutes, allStops,
                   rDoc, sDoc>>
    /\ UNCHANGED <<engineVars, clockVars, mapVars, freqVars, shapeVars>>

\* if (!d) { console.error(...); process.exit(1) }
FindFails ==
    /\ mpc = "find"
    /\ mpc' = "exited"
    /\ UNCHANGED <<tripsRaw, stopsRaw, routeTrips, stopsMap, outputRoutes, allStops,
                   rDoc, sDoc>>
    /\ UNCHANGED <<engineVars, clockVars, mapVars, freqVars, shapeVars>>

\* sections 1 to 6 of main: every table is read, routeTrips and stopsMap are built
ReadTables ==
    /\ mpc = "read"
    /\ routeTrips' = TripLoop(tripsRaw, 1, routeTrips)
    /\ stopsMap' = StopLoop(stopsRaw, 1, stopsMap)
    /\ mpc' = "build"
    /\ UNCHANGED <<tripsRaw, stopsRaw, outputRoutes, allStops, rDoc, sDoc>>
    /\ UNCHANGED <<engineVars, clockVars, mapVars, freqVars, shapeVars>>

\* a table file is missing: fs.readFileSync throws in parseCSV and the run ends
TableMissing ==
    /\ mpc = "read"
    /\ mpc' = "aborted"
    /\ UNCHANGED <<tripsRaw, stopsRaw, routeTrips, stopsMap, outputRoutes, allStops,
                   rDoc, sDoc>>
    /\ UNCHANGED <<engineVars, clockVars, mapVars, freqVars, shapeVars>>

\* section 7 of main
BuildRoutes ==
    /\ mpc = "build"
    /\ outputRoutes' = RouteLoop(1, routeTrips, stopsMap, <<>>)
    /\ mpc' = "write"
    /\ UNCHANGED <<tripsRaw, stopsRaw, routeTrips, stopsMap, allStops, rDoc, sDoc>>
    /\ UNCHANGED <<engineVars, clockVars, mapVars, freqVars, shapeVars>>

\* fs.mkdirSync(outDir); fs.writeFileSync(rPath, JSON.stringify(outputRoutes))
WriteRoutes ==
    /\ mpc = "write"
    /\ rDoc' = "new"
    /\ mpc' = "stops"
    /\ UNCHANGED <<tripsRaw, stopsRaw, routeTrips, stopsMap, outputRoutes, allStops, sDoc>>
    /\ UNCHANGED <<engineVars, clockVars, mapVars, freqVars, shapeVars>>

\* mkdirSync or the write of emt-routes.json throws: the file is untouched or
\* holds a part of the document
WriteRoutesFails ==
    /\ mpc = "write"
    /\ rDoc' \in {"old", "partial"}
    /\ mpc' = "aborted"
    /\ UNCHANGED <<tripsRaw, stopsRaw, routeTrips, stopsMap, outputRoutes, allStops, sDoc>>
    /\ UNCHANGED <<engineVars, clockVars, mapVars, freqVars, shapeVars>>

\* the unique stops are collected and emt-stops.json is written
WriteStops ==
    /\ mpc = "stops"
    /\ allStops' = UniqueLoop(RouteStops(outputRoutes, 1), 1, {}, <<>>)
    /\ sDoc' = "new"
    /\ mpc' = "done"
    /\ UNCHANGED <<tripsRaw, stopsRaw, routeTrips, stopsMap, outputRoutes, rDoc>>
    /\ UNCHANGED <<engineVars, clockVars, mapVars, freqVars, shapeVars>>

\* statSync(rPath) or the write of emt-stops.json throws
WriteStopsFails ==
    /\ mpc = "stops"
    /\ allStops' = UniqueLoop(RouteStops(outputRoutes, 1), 1, {}, <<>>)
    /\ sDoc' \in {"old", "partial"}
    /\ mpc' = "aborted"
    /\ UNCHANGED <<tripsRaw, stopsRaw, routeTrips, stopsMap, outputRoutes, rDoc>>
    /\ UNCHANGED <<engineVars, clockVars, mapVars, freqVars, shapeVars>>

----------------------------------------------------------------------------
(* Specifications *)

InitEngine == EngineInit /\ ClockInit /\ MapInit /\ FreqIdle /\ ShapeIdle /\ BuildIdle
NextEngine == \E t \in TimeInputs : Query(t)
SpecEngine == InitEngine /\ [][NextEngine]_vars

\* the clock with the effect of a click run within the click (React 18 and later)
InitClock == EngineIdle /\ ClockInit /\ MapInit /\ FreqIdle /\ ShapeIdle /\ BuildIdle
NextClock ==
    \/ FlushEffects
    \/ ToggleSync
    \/ \E id \in rafPending : Frame(id)
    \/ \E v \in SeekTargets : Seek(v)
    \/ Unmount
    \/ \E d \in WallSteps : WallTick(d)
SpecClock == InitClock /\ [][NextClock]_vars

\* the clock with every effect deferred: any interleaving of toggles, effect
\* cleanups and animation frames
NextClockDeferred ==
    \/ FlushEffects
    \/ ToggleDeferred
    \/ \E id \in rafPending : Frame(id)
    \/ \E v \in SeekTargets : Seek(v)
    \/ Unmount
    \/ \E d \in WallSteps : WallTick(d)
SpecClockDeferred == InitClock /\ [][NextClockDeferred]_vars

InitMap == EngineIdle /\ ClockInit /\ MapInit /\ FreqIdle /\ ShapeIdle /\ BuildIdle
NextMap ==
    \/ MapLoad
    \/ FetchOk
    \/ SetupFails
    \/ FetchFail
    \/ \E id \in animPending, t \in MapSimTimes, now \in PerfTimes :
          \E failed \in SUBSET FrameVehicles[t] : Tick(id, t, now, failed)
    \/ Teardown
SpecMap == InitMap /\ [][NextMap]_vars

InitFreq == EngineIdle /\ ClockInit /\ MapInit /\ FreqInit /\ ShapeIdle /\ BuildIdle
NextFreq ==
    \/ ReadFrequencies
    \/ MergeBands
SpecFreq == InitFreq /\ [][NextFreq]_vars

InitShape == EngineIdle /\ ClockInit /\ MapInit /\ FreqIdle /\ ShapeInit /\ BuildIdle
NextShape ==
    \/ ShapeCheck
    \/ SimplifyStep
    \/ ShapeDone
SpecShape == InitShape /\ [][NextShape]_vars

InitBuild == EngineIdle /\ ClockInit /\ MapInit /\ FreqIdle /\ ShapeIdle /\ BuildInit
NextBuild ==
    \/ FindGtfsDir
    \/ FindFails
    \/ ReadTables
    \/ TableMissing
    \/ BuildRoutes
    \/ WriteRoutes
    \/ WriteRoutesFails
    \/ WriteStops
    \/ WriteStopsFails
SpecBuild == InitBuild /\ [][NextBuild]_vars

----------------------------------------------------------------------------
(* Claims about the position engine *)

LiveBand(band) == IsNum(band.headway) /\ band.headway[1] > 0

\* the pairs <<band index, k>> of a route whose departure startSec + k*headway
\* lies before endSec and whose vehicle is on its way at t, for trip durations Dur
Departures(r, t, Dur(_, _)) ==
    UNION {{<<i, k>> : k \in {j \in 0 .. (r.frequencies[i].endSec - r.frequencies[i].startSec) :
                LET band == r.frequencies[i]
                    dep == band.startSec + j * band.headway[1]
                IN /\ dep < band.endSec
                   /\ 0 <= t - dep
                   /\ t - dep <= Dur(r, band)}}
           : i \in {b \in 1 .. Len(r.frequencies) : LiveBand(r.frequencies[b])}}

ElapsedOf(r, t, p) ==
    t - (r.frequencies[p[1]].startSec + p[2] * r.frequencies[p[1]].headway[1])

\* the reduced fraction f is elapsed / dur (a division by zero equals nothing)
IsQuotient(f, elapsed, dur) == dur # 0 /\ f[1] * dur = elapsed * f[2]

\* out holds exactly one vehicle per departure, with progress elapsed / dur in [0,1]
OnePerDeparture(r, t, out, Dur(_, _)) ==
    LET deps == Departures(r, t, Dur)
        Same(p, q) == ElapsedOf(r, t, p) * Dur(r, r.frequencies[q[1]])
                        = ElapsedOf(r, t, q) * Dur(r, r.frequencies[p[1]])
        Is(j, p) == IsQuotient(out[j].progress, ElapsedOf(r, t, p),
                               Dur(r, r.frequencies[p[1]]))
    IN /\ Len(out) = Cardinality(deps)
       /\ \A j \in 1 .. Len(out) :
             /\ 0 <= out[j].progress[1]
             /\ out[j].progress[1] <= out[j].progress[2]
             /\ \E p \in deps : Is(j, p)
       /\ \A p \in deps :
             Cardinality({j \in 1 .. Len(out) : Is(j, p)})
               = Cardinality({q \in deps : Same(p, q)})

\* the trip duration as the claim words it: the band's own if present, else the
\* route's default
ClaimedDur(r, band) ==
    IF IsNum(band.tripDur) THEN band.tripDur[1]
    ELSE IF Truthy(r.tripDuration) THEN r.tripDuration[1] ELSE 1800

\* the trip duration of the amended claim
AmendedDur(r, band) ==
    IF IsNum(band.tripDur) /\ band.tripDur[1] # 0 THEN band.tripDur[1]
    ELSE IF IsNum(r.tripDuration) /\ r.tripDuration[1] # 0 THEN r.tripDuration[1]
    ELSE 1800

\* C1 as stated: one vehicle per departure (band, dep) with 0 <= t - dep <= dur,
\* dur the band's own trip duration whenever the band has one
C1_AsStated == queried => OnePerDeparture(route, simT, buses, ClaimedDur)

\* C1 amended: activeBuses returns exactly one vehicle per departure (band, dep)
\* of a band with headway > 0, dep = startSec + k*headway < endSec, with
\* 0 <= t - dep <= dur and progress (t - dep)/dur in [0,1], where dur is the
\* band's trip duration if present and non-zero, else the route's trip duration
\* if present and non-zero, else 1800; no bands or only bands with headway <= 0
\* give no vehicle
C1_OnePerDeparture ==
    queried =>
        /\ OnePerDeparture(route, simT, buses, AmendedDur)
        /\ (\A i \in 1 .. Len(route.frequencies) : ~LiveBand(route.frequencies[i]))
              => buses = <<>>

\* a band with a zero trip duration of its own whose vehicles run on the route's
\* duration, two of them on their way
C1_Witness ==
    /\ queried
    /\ Len(route.frequencies) = 1
    /\ route.frequencies[1].tripDur = Num(0)
    /\ route.tripDuration = Num(3)
    /\ Len(buses) = 2
    /\ buses[1].progress = <<1, 1>>

\* C2 as stated: for the band {28800, 32400, 600, 1800}, at t = 29100 exactly one
\* vehicle is returned and its progress is 0.5
C2_AsStated ==
    (queried /\ route = ExampleRoute /\ simT = 29100)
        => (Len(buses) = 1 /\ buses[1].progress = <<1, 2>>)

\* C2 amended: for the band {28800, 32400, 600, 1800}, at t = 29100 exactly one
\* vehicle is returned and its progress is 300/1800 = 1/6; at t = 28799 and at
\* t = 30900 no vehicle of the departure dep = 28800 is returned (none at all at
\* 28799; those of 29400, 30000 and 30600 at 30900)
C2_ExampleBand ==
    (queried /\ route = ExampleRoute) =>
        /\ simT = 29100 => buses = <<[progress |-> <<1, 6>>]>>
        /\ simT = 28799 => buses = <<>>
        /\ simT = 30900 =>
              /\ buses = <<[progress |-> <<5, 6>>], [progress |-> <<1, 2>>],
                           [progress |-> <<1, 6>>]>>
              /\ \A j \in 1 .. Len(buses) :
                    ~IsQuotient(buses[j].progress, 30900 - 28800, 1800)

C2_Witness ==
    /\ queried
    /\ route = ExampleRoute
    /\ simT = 30900
    /\ Len(buses) = 3

----------------------------------------------------------------------------
(* Claims about the clock *)

\* C3: in every reachable state T_MIN <= simTime <= T_MAX, and a step whose sum
\* prev + dt*SIM_SPEED exceeds T_MAX sets simTime to exactly T_MIN
C3_ClockRange ==
    /\ [](T_MIN <= simTime /\ simTime <= T_MAX)
    /\ [][(IsStep(op') /\ IsNum(lastT)
             /\ simTime + ((wallNow - lastT[1]) * SIM_SPEED) \div 1000 > T_MAX)
           => simTime' = T_MIN]_vars

\* a step has just wrapped the clock
C3_Witness == op = "wrap" /\ simTime = T_MIN /\ wallNow > 0

C5_OneLoop ==
    /\ Cardinality(rafPending) <= 1
    /\ (~playing /\ ~effectDirty) => rafPending = {}
    /\ ~mounted => rafPending = {}

\* a frame fired between the click that pauses and the cleanup of the effect,
\* after an earlier pause and resume
C5_Witness ==
    /\ runs = 2 /\ ~playing /\ effectDirty /\ IsStep(op)
    /\ Cardinality(rafPending) = 1

----------------------------------------------------------------------------
(* Claims about the GtfsMap component *)

\* C6: after teardown, whatever the phase, no tick body runs, no animation frame
\* remains scheduled and no callback of the presentation layer is invoked
C6_AsStated ==
    /\ [](cancelled => (lateCalls = {} /\ animPending = {}))
    /\ [][cancelled => (perfNow' = perfNow /\ stats' = stats /\ eatenAt' = eatenAt)]_vars

\* C7 as stated: after every frame, at wall-clock time q, a stop last marked at T
\* is reported eaten iff T <= q < T + PELLET_RESPAWN
C7_AsStated ==
    (mphase = "running" /\ perfNow > 0) =>
        \A s \in StopIds :
            IsNum(eatenAt[s]) =>
                pellets[s] = IF eatenAt[s][1] <= perfNow
                                /\ perfNow < eatenAt[s][1] + PELLET_RESPAWN
                             THEN 1 ELSE 0

\* C7 amended: after every frame that refreshes the pellet source (those at a
\* wall-clock time q with Math.round(q / 16) % 12 = 0), a stop last marked at T
\* is reported eaten when T <= q < T + PELLET_RESPAWN and not eaten when
\* q >= T + PELLET_RESPAWN
C7_Decay ==
    (mphase = "running" /\ perfNow > 0 /\ ((perfNow + 8) \div 16) % 12 = 0) =>
        \A s \in StopIds :
            IsNum(eatenAt[s]) =>
                pellets[s] = IF eatenAt[s][1] <= perfNow
                                /\ perfNow < eatenAt[s][1] + PELLET_RESPAWN
                             THEN 1 ELSE 0

\* at q = T + PELLET_RESPAWN exactly one stop has respawned while another, marked
\* later, is still reported eaten
C7_Witness ==
    /\ mphase = "running"
    /\ ((perfNow + 8) \div 16) % 12 = 0
    /\ \E s, u \in StopIds :
          /\ IsNum(eatenAt[s]) /\ perfNow = eatenAt[s][1] + PELLET_RESPAWN
          /\ pellets[s] = 0
          /\ IsNum(eatenAt[u]) /\ eatenAt[u][1] < perfNow /\ pellets[u] = 1

----------------------------------------------------------------------------
(* Claims about the schedule builder *)

\* the rows of frequencies.txt whose trip resolves to route r, and the window of
\* a row
RowsOf(r) ==
    {i \in 1 .. Len(freqRaw) :
        freqRaw[i].trip_id \in DOMAIN tripRoute /\ tripRoute[freqRaw[i].trip_id] = r}
WindowOf(f) == <<timeToSec(f.start_time), timeToSec(f.end_time)>>

\* C8: every band of the builder's output has headway > 0 and startSec < endSec
\* (rows with a non-positive headway are dropped)
C8_AsStated ==
    bpc = "done" =>
        \A r \in RouteIds : \A k \in 1 .. Len(routeFreqs[r]) :
            LET b == routeFreqs[r][k]
            IN /\ IsNum(b.headway) /\ b.headway[1] > 0
               /\ JsLess(b.startSec, b.endSec)

\* C9: for every route and every window among its input rows the output holds
\* exactly one band with that window, whose headway is the minimum of the
\* headways of the route's rows with that window
C9_AsStated ==
    bpc = "done" =>
        \A r \in RouteIds : \A w \in {WindowOf(freqRaw[i]) : i \in RowsOf(r)} :
            LET out == {k \in 1 .. Len(routeFreqs[r]) : KeyOf(routeFreqs[r][k]) = w}
                hs == {parseInt(freqRaw[i].headway_secs)[1] :
                         i \in {j \in RowsOf(r) :
                                  /\ WindowOf(freqRaw[j]) = w
                                  /\ IsNum(parseInt(freqRaw[j].headway_secs))}}
            IN /\ Cardinality(out) = 1
               /\ hs # {} =>
                    \A k \in out :
                        /\ IsNum(routeFreqs[r][k].headway)
                        /\ routeFreqs[r][k].headway[1] \in hs
                        /\ \A h \in hs : routeFreqs[r][k].headway[1] <= h

\* the indices (from 0) the claim keeps of n points
KeptIndices(n) ==
    LET N == IF n > 200 THEN 3 ELSE IF n > 100 THEN 2 ELSE 1
    IN {i \in 0 .. n - 1 : i = 0 \/ i = n - 1 \/ i % N = 0}
\* the j-th smallest of a set of indices
NthOf(S, j) == CHOOSE i \in S : Cardinality({k \in S : k < i}) = j - 1
\* c is x rounded to 6 decimals (x in 1e-7 degrees, c in 1e-6 degrees)
IsRounded(c, x) ==
    IF IsNum(x) THEN IsNum(c) /\ Abs(10 * c[1] - x[1]) <= 5 ELSE ~IsNum(c)
IsPoint(c, pt) == IsRounded(c[1], pt.lon) /\ IsRounded(c[2], pt.lat)

\* C10: a shape built from n >= 2 points has at least 2 coordinates, which are
\* the input points 0, n-1 and those of index divisible by N (3 if n > 200, 2 if
\* n > 100, else 1), in input order and rounded to 6 decimals; fewer than 2
\* points build no shape
C10_Simplify ==
    /\ spc = "skipped" => (Len(pts) < 2 /\ coords = <<>>)
    /\ spc \in {"loop", "done"} => Len(pts) >= 2
    /\ spc = "done" =>
          LET n == Len(pts)
              kept == KeptIndices(n)
          IN /\ Len(coords) >= 2
             /\ Len(coords) = Cardinality(kept)
             /\ \A j \in 1 .. Len(coords) : IsPoint(coords[j], pts[NthOf(kept, j) + 1])
             /\ IsPoint(coords[1], pts[1])
             /\ IsPoint(coords[Len(coords)], pts[n])

\* a shape of more than 200 points whose last index is not a multiple of 3
C10_Witness ==
    /\ spc = "done"
    /\ Len(pts) = 203
    /\ Len(coords) = 69

----------------------------------------------------------------------------
(* Claims about the documents the builder writes *)

\* the stop ids the shapes of the emitted routes refer to
ReferencedStopIds ==
    UNION {UNION {{outputRoutes[r].shapes[h].stops[k].id
                     : k \in 1 .. Len(outputRoutes[r].shapes[h].stops)}
                  : h \in 1 .. Len(outputRoutes[r].shapes)}
           : r \in 1 .. Len(outputRoutes)}

\* C11: the Stop document holds no two records with the same stop id, and every
\* stop id in the stops list of a shape of an emitted route is in it
C11_UniqueStops ==
    sDoc = "new" =>
        /\ \A i, j \in 1 .. Len(allStops) : allStops[i].id = allStops[j].id => i = j
        /\ ReferencedStopIds = {allStops[i].id : i \in 1 .. Len(allStops)}

\* two emitted routes whose shapes share a stop, written once
C11_Witness ==
    /\ sDoc = "new"
    /\ Len(outputRoutes) = 2
    /\ Len(RouteStops(outputRoutes, 1)) > Len(allStops)
    /\ Len(allStops) = 2

\* C12: rows with an unparsable numeric field are excluded and the run goes on:
\* no shape coordinate and no stop coordinate of the output is NaN, and no
\* emitted band has a non-numeric headway
C12_AsStated ==
    /\ spc = "done" =>
          \A j \in 1 .. Len(coords) : IsNum(coords[j][1]) /\ IsNum(coords[j][2])
    /\ mpc \in {"write", "stops", "done"} =>
          \A r \in 1 .. Len(outputRoutes) : \A h \in 1 .. Len(outputRoutes[r].shapes) :
              \A k \in 1 .. Len(outputRoutes[r].shapes[h].stops) :
                  LET c == outputRoutes[r].shapes[h].stops[k].coords
                  IN IsNum(c[1]) /\ IsNum(c[2])
    /\ bpc = "done" =>
          \A r \in RouteIds : \A k \in 1 .. Len(routeFreqs[r]) :
              IsNum(routeFreqs[r][k].headway)

\* C13: when the run fails at any step, either both documents of this run are
\* written or neither is, and none is left partially written
C13_AsStated ==
    mpc \in {"exited", "aborted"} =>
        \/ rDoc = "old" /\ sDoc = "old"
        \/ rDoc = "new" /\ sDoc = "new"

\* the j-th (from 1) row of frequencies.txt whose trip resolves to route r
NthRowOf(r, j) == freqRaw[NthOf(RowsOf(r), j)]

\* the trip duration as the claim words it: last arrival minus first arrival for
\* a trip with at least 2 timed stops, 1800 otherwise
ClaimedTripDur(trip) ==
    IF trip \in DOMAIN tripStops /\ Len(tripStops[trip]) >= 2
    THEN JsSub(tripStops[trip][Len(tripStops[trip])].arrSec, tripStops[trip][1].arrSec)
    ELSE Num(1800)

\* C14: the band appended for a frequencies row whose trip resolves to a route
\* has the trip duration lastStopArrival - firstStopArrival when the trip has at
\* least 2 timed stops, and 1800 when it has 1 or 0
C14_AsStated ==
    bpc = "merge" =>
        \A r \in RouteIds :
            /\ Len(routeFreqs[r]) = Cardinality(RowsOf(r))
            /\ \A j \in 1 .. Len(routeFreqs[r]) :
                  routeFreqs[r][j].tripDur = ClaimedTripDur(NthRowOf(r, j).trip_id)

\* the rows of trips.txt of route r, and the first row of r with the direction d
\* and the shape h
TripRowsOf(r) == {i \in 1 .. Len(tripsRaw) : tripsRaw[i].route_id = r}
FirstTripOf(r, d, h) ==
    LET same == {i \in TripRowsOf(r) :
                    tripsRaw[i].direction_id = d /\ tripsRaw[i].shape_id = h}
    IN tripsRaw[CHOOSE i \in same : \A k \in same : i <= k]

\* the stops list the builder attaches to the shape of a trip
StopsOfTrip(tid) ==
    StopArrLoop(IF tid \in DOMAIN tripStops THEN tripStops[tid] ELSE <<>>, 1, stopsMap, <<>>)

\* one representative per (direction_id, shape_id) of the route's trips, the
\* first such trip
C16_Retained ==
    \A r \in BuildRouteIds :
        \A p \in {<<tripsRaw[i].direction_id, tripsRaw[i].shape_id>> : i \in TripRowsOf(r)} :
            LET at == {k \in 1 .. Len(routeTrips[r]) :
                          /\ routeTrips[r][k].shape_id = p[2]
                          /\ \E i \in TripRowsOf(r) :
                                /\ tripsRaw[i].trip_id = routeTrips[r][k].trip_id
                                /\ tripsRaw[i].direction_id = p[1]}
            IN /\ Cardinality(at) = 1
               /\ \A k \in at : routeTrips[r][k].trip_id = FirstTripOf(r, p[1], p[2]).trip_id

\* no two shapes of an emitted route have the same (direction, shapeId)
C16_NoTwin ==
    \A r \in 1 .. Len(outputRoutes) :
        \A a, b \in 1 .. Len(outputRoutes[r].shapes) :
            LET x == outputRoutes[r].shapes[a]
                y == outputRoutes[r].shapes[b]
            IN (x.direction = y.direction /\ x.shapeId = y.shapeId) => a = b

\* the headsign and the stops of every emitted shape are those of the first trip
\* of its route with its direction and its shape
C16_OfFirstTrip ==
    \A r \in 1 .. Len(outputRoutes) :
        \A a \in 1 .. Len(outputRoutes[r].shapes) :
            LET x == outputRoutes[r].shapes[a]
            IN \E i \in TripRowsOf(outputRoutes[r].id) :
                  LET t == tripsRaw[i]
                  IN /\ t.shape_id = x.shapeId
                     /\ DirectionOf(t) = x.direction
                     /\ t.trip_id = FirstTripOf(outputRoutes[r].id, t.direction_id,
                                                t.shape_id).trip_id
                     /\ x.headsign = t.trip_headsign
                     /\ x.stops = StopsOfTrip(t.trip_id)

\* C16: the builder retains one representative trip per (directionId, shapeId)
\* of a route, the first in trips.txt order, so an emitted route never has two
\* shapes with the same (direction, shapeId), and each shape's headsign and stop
\* list are those of that first trip
C16_AsStated ==
    mpc \in {"write", "stops", "done"} =>
        C16_Retained /\ C16_NoTwin /\ C16_OfFirstTrip

----------------------------------------------------------------------------
(* Claims about a frame of the map *)

\* |p - dist / total| < 0.015 for the fraction p = <<n, d>>, as the claim words
\* it (nothing is within reach of a division by zero)
WithinReach(p, dist, total) ==
    /\ total # 0
    /\ Abs(p[1] * total - dist * p[2]) * 1000 < 15 * Abs(p[2] * total)

\* the progress the frame loop compares: limited to [0.001, 0.999]
Limited(p) ==
    IF p[1] * 1000 < p[2] THEN <<1, 1000>>
    ELSE IF p[1] * 1000 > 999 * p[2] THEN <<999, 1000>>
    ELSE p

\* the vehicles activeBuses returns for route ri at the time of the last frame
ActiveOf(ri) == 1 .. Len(activeBuses(MapRoutes[ri], frameT))
ProgressOf(ri, j) == activeBuses(MapRoutes[ri], frameT)[j].progress
LastDist(ri) == MapRoutes[ri].stops[Len(MapRoutes[ri].stops)].dist

\* C15 as stated: in a frame a stop s of a route's shape is in the visited set
\* iff some active vehicle of that route has |p - s.dist/totalDistance| < 0.015,
\* p its progress elapsed / tripDuration
C15_AsStated ==
    perfNow > 0 =>
        \A ri \in 1 .. Len(MapRoutes) : \A k \in 1 .. Len(MapRoutes[ri].stops) :
            (MapRoutes[ri].stops[k].id \in nowEaten)
              <=> \E j \in ActiveOf(ri) :
                     WithinReach(ProgressOf(ri, j), MapRoutes[ri].stops[k].dist, LastDist(ri))

\* C15 amended: in a frame a stop id is in the visited set iff it is the id of a
\* stop s of the first shape of some route that has a line, and some active
\* vehicle of that route whose interpolation succeeded has
\* |p - s.dist/totalD| < 0.015, with p the vehicle's progress limited to
\* [0.001, 0.999] and totalD the distance of the shape's last stop, or 1 when
\* that is 0; the scheduled arrival of the stop plays no part
C15_Eaten ==
    perfNow > 0 =>
        \A s \in StopIds :
            (s \in nowEaten)
              <=> \E ri \in 1 .. Len(MapRoutes) :
                     /\ MapRoutes[ri].geo
                     /\ \E k \in 1 .. Len(MapRoutes[ri].stops) : \E j \in ActiveOf(ri) :
                           /\ MapRoutes[ri].stops[k].id = s
                           /\ <<ri, j>> \notin failedNow
                           /\ WithinReach(Limited(ProgressOf(ri, j)),
                                          MapRoutes[ri].stops[k].dist,
                                          IF LastDist(ri) = 0 THEN 1 ELSE LastDist(ri))

\* a frame at 29700: the vehicle of r1 that left at 28800 is half way and eats
\* s2, whose scheduled arrival is 100 s after the first stop's; s1 and s3 are not
\* eaten
C15_Witness ==
    /\ perfNow > 0
    /\ frameT = 29700
    /\ failedNow = {}
    /\ nowEaten = {"s2"}

\* the stop ids within reach of vehicle v = <<route index, vehicle index>> of the
\* last frame
ReachOf(v) ==
    {MapRoutes[v[1]].stops[k].id :
        k \in {i \in 1 .. Len(MapRoutes[v[1]].stops) :
                 WithinReach(Limited(ProgressOf(v[1], v[2])),
                             MapRoutes[v[1]].stops[i].dist,
                             IF LastDist(v[1]) = 0 THEN 1 ELSE LastDist(v[1]))}}

\* the active vehicles of the last frame, on the routes that have a line
ActiveVehicles ==
    UNION {{<<ri, j>> : j \in ActiveOf(ri)}
           : ri \in {i \in 1 .. Len(MapRoutes) : MapRoutes[i].geo}}

\* C17: a vehicle whose interpolation fails contributes no feature, no bus count
\* and no visited stop; every other active vehicle of the frame is emitted, the
\* frame's results are published and the next frame is scheduled
C17_OnlyThatVehicle ==
    perfNow > 0 =>
        /\ failedNow \subseteq ActiveVehicles
        /\ features = ActiveVehicles \ failedNow
        /\ stats = [routes |-> Len(MapRoutes), buses |-> Cardinality(features)]
        /\ nowEaten = UNION {ReachOf(v) : v \in features}
        /\ "onStats" \in calls
        /\ ~cancelled => (Cardinality(animPending) = 1 /\ animPending = {animId[1]})

\* the frame at 29700 in which the interpolation fails for the vehicle of r1 that
\* is half way: it is not counted and s2 is not eaten, the other vehicle of r1
\* and the one of r2 are emitted, and the next frame is pending
C17_Witness ==
    /\ perfNow > 0
    /\ ~cancelled
    /\ frameT = 29700
    /\ failedNow = {<<1, 1>>}
    /\ features = {<<1, 2>>, <<2, 1>>}
    /\ stats.buses = 2
    /\ nowEaten = {}
    /\ animPending # {}

====
